---- MODULE Spec2Model ----
(***************************************************************************)
(* A model of tnc-br/ddf-common: the georeferenced raster helpers of       *)
(* raster.py (Bounds, coords_to_indices, load_raster,                      *)
(* save_numpy_to_geotiff, get_data_at_coords), the hypothesis-test         *)
(* pipeline of hypothesis.py (sample_ttest, get_predictions,               *)
(* fraud_metrics), the environment switch of eeddf.py (initialize_ddf,     *)
(* is_test_environment) and the chunking of eeraster.py (set_ee_options,   *)
(* eeRaster.values_at_df).                                                 *)
(*                                                                         *)
(* Numbers.  Coordinates, pixel sizes and raster values are floats in the  *)
(* code.  Here they are integers ("ticks"): arithmetic is exact, pixel     *)
(* sizes of more than one tick give coordinates strictly inside a cell,    *)
(* and floating-point rounding is not modelled.                            *)
(*                                                                         *)
(* Exceptions.  A call's outcome is a record: [kind |-> "return", ...] or  *)
(* [kind |-> "raise", type |-> <Python class>, msg |-> <where raised>].    *)
(***************************************************************************)
EXTENDS Integers, Sequences, FiniteSets, TLC

VARIABLES
    bounds,     \* raster.Bounds handed to coords_to_indices / save_numpy_to_geotiff
    result,     \* the last call: its operation, arguments and outcome
    file,       \* the raster file at `path` (a gdal dataset), or NoFile
    tif,        \* the AmazonGeoTiff returned by the last successful load_raster, or NoTif
    saved,      \* the grid handed to the last save_numpy_to_geotiff that returned, or NoGrid
    sample_data,          \* get_predictions: the DataFrame of observation rows
    arg_isotope_column_names, \* get_predictions: the isotope columns to test
    means_isoscapes,      \* hypothesis.py: one AmazonGeoTiff per isotope column
    variances_isoscapes,  \* hypothesis.py: one AmazonGeoTiff per isotope column
    arg_sample_size_per_location, \* get_predictions: samples behind each isoscape cell
    _initialized,       \* eeddf._initialized
    _test_environment,  \* eeddf._test_environment
    authenticated,      \* the number of auth.authenticate_user() calls made
    ee_projects,        \* the projects ee.Initialize was called with, in order
    calls,              \* the test_environment arguments of the initialize_ddf calls, in order
    _CHUNK_SIZE,        \* eeraster._CHUNK_SIZE
    df,                 \* values_at_df: the rows of the table (their positions)
    start,              \* values_at_df: the loop variable
    query_list,         \* values_at_df: the chunks built
    pc                  \* values_at_df: "idle", or "loop" inside the while loop

vars == <<bounds, result, file, tif, saved,
          sample_data, arg_isotope_column_names, means_isoscapes,
          variances_isoscapes, arg_sample_size_per_location,
          _initialized, _test_environment, authenticated, ee_projects, calls,
          _CHUNK_SIZE, df, start, query_list, pc>>

rasterVars == <<file, tif, saved>>
hypVars == <<sample_data, arg_isotope_column_names, means_isoscapes,
             variances_isoscapes, arg_sample_size_per_location>>

eeddfVars == <<_initialized, _test_environment, authenticated, ee_projects, calls>>
eerasterVars == <<_CHUNK_SIZE, df, start, query_list, pc>>

\* The module globals as eeddf.py (lines 24-25) and eeraster.py (line 16)
\* set them when imported; nothing is authenticated and no call is running.
DefaultChunkSize == 80
ModulesLoaded ==
    /\ _initialized = FALSE
    /\ _test_environment = FALSE
    /\ authenticated = 0
    /\ ee_projects = <<>>
    /\ calls = <<>>
    /\ _CHUNK_SIZE = DefaultChunkSize
    /\ df = <<>>
    /\ start = 0
    /\ query_list = <<>>
    /\ pc = "idle"

----------------------------------------------------------------------------
(* Outcomes *)

Return(v) == [kind |-> "return", value |-> v]
Raise(t, m) == [kind |-> "raise", type |-> t, msg |-> m]

Returned(o) == o.kind = "return"
Raised(o, t, m) == o.kind = "raise" /\ o.type = t /\ o.msg = m

NoCall == [op |-> "none"]

----------------------------------------------------------------------------
(* Exact integer arithmetic standing for the code's float arithmetic *)

Abs(a) == IF a < 0 THEN -a ELSE a

\* math.ceil(a / b) for b > 0
CeilDiv(a, b) == -((-a) \div b)

\* int(a / b) for b > 0: Python's int() truncates towards zero
TruncDiv(a, b) == IF a >= 0 THEN a \div b ELSE -((-a) \div b)

----------------------------------------------------------------------------
(* raster.py: Bounds and coords_to_indices *)

\* The dataclass: eight independent fields, no validation.
Bounds(minx, maxx, miny, maxy, psx, psy, rsx, rsy) ==
    [minx |-> minx, maxx |-> maxx, miny |-> miny, maxy |-> maxy,
     pixel_size_x |-> psx, pixel_size_y |-> psy,
     raster_size_x |-> rsx, raster_size_y |-> rsy]

\* Mutant: the eastern edge is not checked.
OutOfBounds_NoEastCheck(b, x, y) ==
    x < b.minx \/ y < b.miny \/ y > b.maxy

\* The guard of line 247.
OutOfBounds(b, x, y) ==
    x < b.minx \/ x > b.maxx \/ y < b.miny \/ y > b.maxy

\* Mutant: the row rounds down instead of up.
RowIndex_Floor(b, y) ==
    b.raster_size_y - TruncDiv(y - b.miny, Abs(b.pixel_size_y))

\* Mutant: the column rounds up instead of down.
ColIndex_Ceil(b, x) == CeilDiv(x - b.minx, Abs(b.pixel_size_x))

\* Lines 251-252: x_idx is the row (counted from the north), y_idx the column.
RowIndex(b, y) == b.raster_size_y - CeilDiv(y - b.miny, Abs(b.pixel_size_y))
ColIndex(b, x) == TruncDiv(x - b.minx, Abs(b.pixel_size_x))

coords_to_indices(b, x, y) ==
    IF OutOfBounds(b, x, y)
    THEN Raise("ValueError", "Coordinates out of bounds")
    ELSE Return(<<RowIndex(b, y), ColIndex(b, x)>>)

\* get_extent, lines 171-177: maxx and miny follow from the geotransform
\* <<origin x, pixel width, 0, origin y, 0, pixel height>> and the raster sizes.
get_extent(dataset) ==
    LET gt == dataset.geoTransform
        minx == gt[1]
        maxy == gt[4]
        maxx == minx + gt[2] * dataset.RasterXSize
        miny == maxy + gt[6] * dataset.RasterYSize
    IN  Bounds(minx, maxx, miny, maxy, gt[2], gt[6],
               dataset.RasterXSize, dataset.RasterYSize)

----------------------------------------------------------------------------
(* The Bounds values and coordinates the indexer is exercised on *)

MaxPixel == 2      \* pixel sizes are 1..MaxPixel ticks
MaxSize == 2       \* rasters have 1..MaxSize rows and columns
Margin == 1        \* coordinates reach this far outside the extent

Origins == {<<0, 0>>, <<-3, 4>>}
PixelSizesX == 1..MaxPixel
PixelSizesY == {-p : p \in 1..MaxPixel} \cup (1..MaxPixel)
Sizes == 1..MaxSize

\* Bounds as test_coords_to_indices writes them: maxx and miny lie
\* |pixel size| * raster size away from the origin (minx, maxy).
ExtentBounds ==
    {Bounds(o[1], o[1] + px * sx, o[2] - Abs(py) * sy, o[2], px, py, sx, sy) :
        o \in Origins, px \in PixelSizesX, py \in PixelSizesY,
        sx \in Sizes, sy \in Sizes}

\* Bounds whose maxx and miny were supplied independently of the sizes:
\* the dataclass accepts them.
LooseBounds ==
    {Bounds(0, px * sx + 1, -(px * sy) - 1, 0, px, -px, sx, sy) :
        px \in PixelSizesX, sx \in Sizes, sy \in Sizes}

\* The three integer cases of test_coords_to_indices, lines 257-270.
TestBounds1 == Bounds(50, 100, 50, 100, 1, 1, 50, 50)
TestBounds2 == Bounds(-100, -50, -100, -50, 1, 1, 50, 50)
TestBounds3 == Bounds(-10, 50, -10, 50, 1, 1, 60, 60)
TestBounds == {TestBounds1, TestBounds2, TestBounds3}

IndexBounds == ExtentBounds \cup LooseBounds \cup TestBounds

Min(a, b) == IF a <= b THEN a ELSE b
Max(a, b) == IF a >= b THEN a ELSE b

\* Coordinates: within Window ticks of either edge of the extent (all of a
\* small raster, and Margin ticks outside it), and the points the tests query.
Window == 4
TestLons == {55, -55, -1}
TestLats == {55, -55, 13}

Near(lo, hi) ==
    {c \in (lo - Margin)..(hi + Margin) : c <= lo + Window \/ c >= hi - Window}

Lons(b) ==
    Near(Min(b.minx, b.maxx), Max(b.minx, b.maxx))
        \cup {c \in TestLons : b \in TestBounds}
Lats(b) ==
    Near(Min(b.miny, b.maxy), Max(b.miny, b.maxy))
        \cup {c \in TestLats : b \in TestBounds}

Idle ==
    /\ file = [exists |-> FALSE]
    /\ tif = [loaded |-> FALSE]
    /\ saved = [given |-> FALSE]
    /\ sample_data = <<>>
    /\ arg_isotope_column_names = <<>>
    /\ means_isoscapes = <<>>
    /\ variances_isoscapes = <<>>
    /\ arg_sample_size_per_location = 0

----------------------------------------------------------------------------
(* Specification SpecIndex: coords_to_indices on a Bounds *)

InitIndex ==
    /\ bounds \in IndexBounds
    /\ result = NoCall
    /\ ModulesLoaded
    /\ Idle

CoordsToIndices(x, y) ==
    /\ result' = [op |-> "coords_to_indices", x |-> x, y |-> y,
                  outcome |-> coords_to_indices(bounds, x, y)]
    /\ UNCHANGED <<bounds, rasterVars, hypVars, eeddfVars, eerasterVars>>

NextIndex == \E x \in Lons(bounds), y \in Lats(bounds) : CoordsToIndices(x, y)

SpecIndex == InitIndex /\ [][NextIndex]_vars

Indexed == result.op = "coords_to_indices"

\* The coordinate of the last call lies in the closed extent.
InExtent ==
    /\ bounds.minx <= result.x /\ result.x <= bounds.maxx
    /\ bounds.miny <= result.y /\ result.y <= bounds.maxy

\* C1: coords_to_indices raises ValueError("Coordinates out of bounds") for
\* every coordinate with lon < minx, lon > maxx, lat < miny or lat > maxy,
\* never returning an (edge) index for it, and returns an index only for
\* minx <= lon <= maxx and miny <= lat <= maxy.
C1_OutOfBoundsRaises ==
    Indexed =>
        /\ (\/ result.x < bounds.minx \/ result.x > bounds.maxx
            \/ result.y < bounds.miny \/ result.y > bounds.maxy)
               => Raised(result.outcome, "ValueError", "Coordinates out of bounds")
        /\ Returned(result.outcome) => InExtent
        /\ InExtent => Returned(result.outcome)

\* A coordinate east of maxx was rejected.
C1_Witness ==
    /\ Indexed
    /\ result.x > bounds.maxx
    /\ result.y >= bounds.miny /\ result.y <= bounds.maxy
    /\ result.outcome.kind = "raise"

\* c is the ceiling of a / b, and f the floor of a / b (b > 0).
IsCeil(c, a, b) == (c - 1) * b < a /\ a <= c * b
IsFloor(f, a, b) == f * b <= a /\ a < (f + 1) * b

\* C2: for an in-bounds (lon, lat) the result is
\* row = raster_size_y - ceil((lat - miny) / |pixel_size_y|) and
\* column = floor((lon - minx) / |pixel_size_x|); the three integer cases of
\* test_coords_to_indices give (45, 5), (5, 45) and (37, 9).
C2_RowCeilColumnFloor ==
    (Indexed /\ InExtent) =>
        /\ Returned(result.outcome)
        /\ IsCeil(bounds.raster_size_y - result.outcome.value[1],
                  result.y - bounds.miny, Abs(bounds.pixel_size_y))
        /\ IsFloor(result.outcome.value[2],
                   result.x - bounds.minx, Abs(bounds.pixel_size_x))
        /\ (bounds = TestBounds1 /\ result.x = 55 /\ result.y = 55)
               => result.outcome.value = <<45, 5>>
        /\ (bounds = TestBounds2 /\ result.x = -55 /\ result.y = -55)
               => result.outcome.value = <<5, 45>>
        /\ (bounds = TestBounds3 /\ result.x = -1 /\ result.y = 13)
               => result.outcome.value = <<37, 9>>

\* A coordinate strictly inside a cell of a raster with 2-tick pixels: the
\* row rounds up and the column rounds down.
C2_Witness ==
    /\ Indexed /\ InExtent
    /\ Abs(bounds.pixel_size_x) > 1 /\ Abs(bounds.pixel_size_y) > 1
    /\ (result.x - bounds.minx) % Abs(bounds.pixel_size_x) # 0
    /\ (result.y - bounds.miny) % Abs(bounds.pixel_size_y) # 0
    /\ Returned(result.outcome)

\* maxx and miny are the origin displaced by |pixel size| * raster size.
Consistent(b) ==
    /\ b.maxx = b.minx + Abs(b.pixel_size_x) * b.raster_size_x
    /\ b.miny = b.maxy - Abs(b.pixel_size_y) * b.raster_size_y

StrictlyInside ==
    /\ bounds.minx < result.x /\ result.x < bounds.maxx
    /\ bounds.miny < result.y /\ result.y < bounds.maxy

\* C3: with maxx = minx + |pixel_size_x| * raster_size_x and
\* miny = maxy - |pixel_size_y| * raster_size_y, every (lon, lat) strictly
\* inside the extent resolves to 0 <= row < raster_size_y and
\* 0 <= column < raster_size_x.
C3_StrictlyInsideInRange ==
    (Indexed /\ Consistent(bounds) /\ StrictlyInside) =>
        /\ Returned(result.outcome)
        /\ 0 <= result.outcome.value[1]
        /\ result.outcome.value[1] < bounds.raster_size_y
        /\ 0 <= result.outcome.value[2]
        /\ result.outcome.value[2] < bounds.raster_size_x

\* A strictly interior coordinate in the southern-most row and eastern-most
\* column of a raster with more than one row and column.
C3_Witness ==
    /\ Indexed /\ Consistent(bounds) /\ StrictlyInside
    /\ bounds.raster_size_y > 1 /\ bounds.raster_size_x > 1
    /\ Returned(result.outcome)
    /\ result.outcome.value = <<bounds.raster_size_y - 1, bounds.raster_size_x - 1>>

----------------------------------------------------------------------------
(* raster.py: numpy masked arrays and gdal datasets *)

\* A numpy (masked) array: its shape, and data and mask (TRUE = masked)
\* indexed by 0-based index tuples.
Indices(shape) ==
    IF Len(shape) = 2 THEN (0..shape[1]-1) \X (0..shape[2]-1)
    ELSE IF Len(shape) = 3
         THEN (0..shape[1]-1) \X (0..shape[2]-1) \X (0..shape[3]-1)
         ELSE (0..shape[1]-1) \X (0..shape[2]-1) \X (0..shape[3]-1) \X (0..shape[4]-1)

\* np.transpose(a, axes=[1,0,2]) of a 3-dimensional array
Transpose102(a) ==
    [shape |-> <<a.shape[2], a.shape[1], a.shape[3]>>,
     data |-> [i \in Indices(<<a.shape[2], a.shape[1], a.shape[3]>>) |->
                  a.data[<<i[2], i[1], i[3]>>]],
     mask |-> [i \in Indices(<<a.shape[2], a.shape[1], a.shape[3]>>) |->
                  a.mask[<<i[2], i[1], i[3]>>]]]

\* np.flip(a, axis=0) of a 3-dimensional array
Flip0(a) ==
    [shape |-> a.shape,
     data |-> [i \in Indices(a.shape) |-> a.data[<<a.shape[1] - 1 - i[1], i[2], i[3]>>]],
     mask |-> [i \in Indices(a.shape) |-> a.mask[<<a.shape[1] - 1 - i[1], i[2], i[3]>>]]]

\* Line 237
PredictionTransformed(prediction) == Flip0(Transpose102(prediction))

\* What line 243 writes in a masked cell: band.GetNoDataValue() of the new
\* band.  Any number that is not a data value stands for it.
NoData == -9999

\* driver.Create and SetGeoTransform, lines 227-228: a raster of xsize by
\* ysize cells and `count` bands of zeros; without mask bands every cell is
\* valid (gdal reads 255).
Create(b, count) ==
    [exists |-> TRUE,
     RasterXSize |-> b.raster_size_x,
     RasterYSize |-> b.raster_size_y,
     RasterCount |-> count,
     geoTransform |-> <<b.minx, b.pixel_size_x, 0, b.maxy, 0, b.pixel_size_y>>,
     band |-> [k \in 1..count |->
                 [c \in (0..b.raster_size_y-1) \X (0..b.raster_size_x-1) |-> 0]],
     maskband |-> [k \in 1..count |->
                 [c \in (0..b.raster_size_y-1) \X (0..b.raster_size_x-1) |-> 255]]]

\* Lines 238-244: band k receives plane k-1 of the transformed prediction,
\* NoData where it is masked, and a mask band that is 1 where it is not.
WriteBands(dataset, transformed) ==
    [dataset EXCEPT
        !.band = [k \in 1..dataset.RasterCount |->
                    [c \in DOMAIN dataset.band[k] |->
                        IF transformed.mask[<<c[1], c[2], k-1>>]
                        THEN NoData
                        ELSE transformed.data[<<c[1], c[2], k-1>>]]],
        !.maskband = [k \in 1..dataset.RasterCount |->
                    [c \in DOMAIN dataset.maskband[k] |->
                        IF transformed.mask[<<c[1], c[2], k-1>>] THEN 0 ELSE 1]]]

\* save_numpy_to_geotiff, lines 218-244.  `old` is the file at path before
\* the call; the result is the outcome and the file after it.
\*   line 227 reads prediction.shape[2]: an IndexError for fewer than three
\*   dimensions, raised before anything is created;
\*   line 227 creates (overwrites) the file, before the shape is checked;
\*   line 232 compares shape[0] with raster_size_x, shape[1] with raster_size_y.
save_numpy_to_geotiff(b, prediction, old) ==
    IF Len(prediction.shape) < 3
    THEN [outcome |-> Raise("IndexError", "tuple index out of range"), file |-> old]
    ELSE IF \/ Len(prediction.shape) # 3
            \/ prediction.shape[1] # b.raster_size_x
            \/ prediction.shape[2] # b.raster_size_y
         THEN [outcome |-> Raise("ValueError", "Shape of prediction does not match base geotiff"),
               file |-> Create(b, prediction.shape[3])]
         ELSE [outcome |-> Return(<<>>),
               file |-> WriteBands(Create(b, prediction.shape[3]),
                                   PredictionTransformed(prediction))]

\* Line 145: every loaded image has this many planes (calendar months).
Months == 12

\* Mutant: only 12-band files are accepted.
BadBandCount_Only12(dataset) == dataset.RasterCount # 12

\* Line 151
BadBandCount(dataset) == dataset.RasterCount # 12 /\ dataset.RasterCount # 1

\* load_raster, lines 132-169.  dataset is the file at path (gdal.Open gives
\* None for a missing file and print_raster_info then fails: OSError).
\* use_only_band_index is -1 (all bands) or a 0-based band index.
load_raster(dataset, use_only_band_index) ==
    IF ~dataset.exists
    THEN Raise("OSError", "Failed to print raster")
    ELSE IF use_only_band_index = -1 /\ BadBandCount(dataset)
    THEN Raise("ValueError", "Expected 12 raster bands or one annual average")
    ELSE
      LET index == IF use_only_band_index = -1 /\ dataset.RasterCount = 1
                   THEN 0 ELSE use_only_band_index
          is_single_band == index # -1
          cells == (0..dataset.RasterYSize-1) \X (0..dataset.RasterXSize-1)
                       \X (0..Months-1)
          source(band_index) == IF is_single_band THEN index + 1 ELSE band_index + 1
      IN  IF is_single_band /\ index >= dataset.RasterCount
          THEN Raise("IndexError", "Specified raster band index too large")
          ELSE Return(
            [loaded |-> TRUE,
             gdal_dataset |-> [RasterXSize |-> dataset.RasterXSize,
                               RasterYSize |-> dataset.RasterYSize,
                               RasterCount |-> dataset.RasterCount,
                               geoTransform |-> dataset.geoTransform],
             image_value_array |->
                 [c \in cells |-> dataset.band[source(c[3])][<<c[1], c[2]>>]],
             image_mask_array |->
                 [c \in cells |-> dataset.maskband[source(c[3])][<<c[1], c[2]>>]]])

\* Line 166: masked_image is masked where the mask array is 0.
Masked(t, row, col, band) == t.image_mask_array[<<row, col, band>>] = 0

ValidBands(t, row, col) == {m \in 0..Months-1 : ~Masked(t, row, col, m)}

RECURSIVE SumOver(_, _)
SumOver(f, S) ==
    IF S = {} THEN 0
    ELSE LET e == CHOOSE e \in S : TRUE IN f[e] + SumOver(f, S \ {e})

\* A raster value as a fraction: a band's value is v / 1, the annual mean of
\* a cell is (the sum of its valid bands) / (their number).
Value(num, den) == [num |-> num, den |-> den]

\* Line 167: yearly_masked_image = masked_image.mean(axis=2), the mean over
\* the unmasked bands of the cell; masked when every band is masked.
YearlyMasked(t, row, col) == ValidBands(t, row, col) = {}
YearlyValue(t, row, col) ==
    Value(SumOver([m \in 0..Months-1 |-> t.image_value_array[<<row, col, m>>]],
                  ValidBands(t, row, col)),
          Cardinality(ValidBands(t, row, col)))

\* numpy indexing of an axis of length n with index i: negative indices
\* count from the end, anything outside -n..n-1 is an IndexError.
AxisOk(i, n) == -n <= i /\ i < n
AxisAt(i, n) == IF i < 0 THEN i + n ELSE i

\* get_data_at_coords, lines 280-292: x is the longitude, y the latitude,
\* month a band index or -1 for the annual mean.
get_data_at_coords(dataset_tif, x, y, month) ==
    LET b == get_extent(dataset_tif.gdal_dataset)
        idx == coords_to_indices(b, x, y)
    IN  IF idx.kind = "raise" THEN idx
        ELSE
          LET x_idx == idx.value[1]
              y_idx == idx.value[2]
              rows == dataset_tif.gdal_dataset.RasterYSize
              cols == dataset_tif.gdal_dataset.RasterXSize
              row == AxisAt(x_idx, rows)
              col == AxisAt(y_idx, cols)
          IN  IF ~AxisOk(x_idx, rows) \/ ~AxisOk(y_idx, cols)
                    \/ (month # -1 /\ ~AxisOk(month, Months))
              THEN Raise("IndexError", "index is out of bounds for axis")
              ELSE IF month = -1
              THEN IF YearlyMasked(dataset_tif, row, col)
                   THEN Raise("ValueError", "Coordinates are masked")
                   ELSE Return(YearlyValue(dataset_tif, row, col))
              ELSE IF Masked(dataset_tif, row, col, AxisAt(month, Months))
                   THEN Raise("ValueError", "Coordinates are masked")
                   ELSE Return(Value(dataset_tif.image_value_array[
                                       <<row, col, AxisAt(month, Months)>>], 1))

----------------------------------------------------------------------------
(* The rasters and grids the store is exercised on *)

\* Bounds of the rasters written and loaded: origin (-3, 4), square pixels of
\* 1 or MaxPixel ticks, pixel_size_y negative (north-up, as gdal reports it)
\* or positive (as test_coords_to_indices writes it).
RasterOrigin == <<-3, 4>>
RasterBounds ==
    UNION {{Bounds(RasterOrigin[1], RasterOrigin[1] + px * sx,
                   RasterOrigin[2] - px * sy, RasterOrigin[2], px, py, sx, sy) :
                py \in {-px, px}, sx \in Sizes, sy \in Sizes} :
           px \in {1, MaxPixel}}

\* Channel counts of the grids handed to save_numpy_to_geotiff.
Channels == {1, 2, Months}

\* Shapes tried against Bounds b: the matching (raster_size_x,
\* raster_size_y, channels), the [row, column] orientation, one column too
\* many, two dimensions, and four.
ShapesFor(b) ==
    UNION {{<<b.raster_size_x, b.raster_size_y, ch>>,
            <<b.raster_size_y, b.raster_size_x, ch>>,
            <<b.raster_size_x + 1, b.raster_size_y, ch>>} : ch \in Channels}
      \cup {<<b.raster_size_x, b.raster_size_y>>,
            <<b.raster_size_x, b.raster_size_y, 1, 1>>}

\* Every cell of a grid holds a different value, so that a cell read back
\* from another position shows.
CellValue(i) ==
    1000 * (i[1] + 1) + 100 * (i[2] + 1) + (IF Len(i) >= 3 THEN i[3] ELSE 0)

\* Masks: nothing masked; or cell [0, 0] masked in every band (a fully
\* masked cell) and the last cell masked in band 0 only.
MaskPatterns == {"none", "mixed"}
CellMask(shape, pattern, i) ==
    /\ pattern = "mixed"
    /\ \/ i[1] = 0 /\ i[2] = 0
       \/ /\ i[1] = shape[1] - 1 /\ i[2] = shape[2] - 1
          /\ Len(i) >= 3 /\ i[3] = 0

Grid(shape, pattern) ==
    [shape |-> shape,
     data |-> [i \in Indices(shape) |-> CellValue(i)],
     mask |-> [i \in Indices(shape) |-> CellMask(shape, pattern, i)]]

GridsFor(b) == {Grid(sh, p) : sh \in ShapesFor(b), p \in MaskPatterns}

\* Band arguments of load_raster: all bands, or one explicit band.
BandArgs == {-1, 0, 1, Months}

----------------------------------------------------------------------------
(* Specification SpecStore: save_numpy_to_geotiff and load_raster on one path *)

InitStore ==
    /\ bounds \in RasterBounds
    /\ result = NoCall
    /\ ModulesLoaded
    /\ Idle

\* save_numpy_to_geotiff(bounds, prediction, path).  `saved` remembers the
\* grid the file now holds: a failed call that re-created the file forgets it.
Save(prediction) ==
    LET r == save_numpy_to_geotiff(bounds, prediction, file)
    IN  /\ file' = r.file
        /\ saved' = IF Returned(r.outcome)
                    THEN [given |-> TRUE, grid |-> prediction]
                    ELSE IF r.file = file THEN saved ELSE [given |-> FALSE]
        /\ result' = [op |-> "save", shape |-> prediction.shape,
                      outcome |-> r.outcome]
        /\ UNCHANGED <<bounds, tif, hypVars, eeddfVars, eerasterVars>>

\* load_raster(path, use_only_band_index); the caller keeps the result in tif.
Load(use_only_band_index) ==
    LET r == load_raster(file, use_only_band_index)
    IN  /\ tif' = IF Returned(r) THEN r.value ELSE tif
        /\ result' = [op |-> "load", band |-> use_only_band_index,
                      outcome |-> IF Returned(r) THEN Return(<<>>) ELSE r]
        /\ UNCHANGED <<bounds, file, saved, hypVars, eeddfVars, eerasterVars>>

NextStore ==
    \/ \E prediction \in GridsFor(bounds) : Save(prediction)
    \/ \E use_only_band_index \in BandArgs : Load(use_only_band_index)

SpecStore == InitStore /\ [][NextStore]_vars

\* C4: save-then-load round trip.  After save_numpy_to_geotiff(bounds, g,
\* path) of a grid g of 1 or 12 channels whose spatial dimensions match the
\* bounds, load_raster(path) returns a raster that has, at every
\* [row, column, band] index of g, g's value and g's mask state.
C4_RoundTrip ==
    (/\ result.op = "load" /\ result.band = -1
     /\ saved.given /\ saved.grid.shape[3] \in {1, Months}) =>
        /\ Returned(result.outcome)
        /\ \A i \in DOMAIN saved.grid.data :
              /\ i \in DOMAIN tif.image_value_array
              /\ Masked(tif, i[1], i[2], i[3]) <=> saved.grid.mask[i]
              /\ ~saved.grid.mask[i] =>
                     tif.image_value_array[i] = saved.grid.data[i]

\* The shape of the last saved grid matches the bounds.
ShapeMatches ==
    /\ Len(result.shape) = 3
    /\ result.shape[1] = bounds.raster_size_x
    /\ result.shape[2] = bounds.raster_size_y

\* C5: save_numpy_to_geotiff raises ValueError("Shape of prediction does not
\* match base geotiff") for every grid whose spatial dimensions are not
\* (raster_size_x, raster_size_y), a grid that is not 3-dimensional included,
\* and otherwise writes a raster with as many bands as the grid has channels.
C5_ShapeMismatch ==
    result.op = "save" =>
        /\ ~ShapeMatches =>
              Raised(result.outcome, "ValueError",
                     "Shape of prediction does not match base geotiff")
        /\ ShapeMatches =>
              /\ Returned(result.outcome)
              /\ file.exists /\ file.RasterCount = result.shape[3]

\* The two failures of load_raster about the band count (lines 152 and 159).
FormatError(o) ==
    \/ Raised(o, "ValueError", "Expected 12 raster bands or one annual average")
    \/ Raised(o, "IndexError", "Specified raster band index too large")

\* C6: on an existing file load_raster fails with a FormatError when no band
\* is requested (-1) and the file has neither 12 bands nor 1, and when the
\* requested band index is not below the band count; a file of 12 bands or 1
\* with no band requested loads into a 12-plane grid, plane m holding band
\* m+1 of a 12-band file and the only band of a 1-band file.
C6_LoadBandCount ==
    (result.op = "load" /\ file.exists) =>
        /\ (result.band = -1 /\ file.RasterCount \notin {1, 12})
               => FormatError(result.outcome)
        /\ (result.band # -1 /\ result.band >= file.RasterCount)
               => FormatError(result.outcome)
        /\ (result.band = -1 /\ file.RasterCount \in {1, 12}) =>
              /\ Returned(result.outcome)
              /\ tif.loaded
              /\ DOMAIN tif.image_value_array =
                    (0..file.RasterYSize-1) \X (0..file.RasterXSize-1) \X (0..11)
              /\ \A c \in DOMAIN tif.image_value_array :
                    LET k == IF file.RasterCount = 1 THEN 1 ELSE c[3] + 1
                    IN  /\ tif.image_value_array[c] = file.band[k][<<c[1], c[2]>>]
                        /\ tif.image_mask_array[c] = file.maskband[k][<<c[1], c[2]>>]

\* A 1-band file with a masked cell was loaded with no band requested.
C6_Witness ==
    /\ result.op = "load" /\ result.band = -1
    /\ file.exists /\ file.RasterCount = 1
    /\ \E c \in DOMAIN file.maskband[1] : file.maskband[1][c] = 0
    /\ Returned(result.outcome)

----------------------------------------------------------------------------
(* Specification SpecQuery: get_data_at_coords on a loaded raster *)

\* The raster queried was written by save_numpy_to_geotiff and loaded by
\* load_raster.
InitQuery ==
    /\ bounds \in RasterBounds
    /\ result = NoCall
    /\ ModulesLoaded
    /\ \E prediction \in GridsFor(bounds), use_only_band_index \in BandArgs :
          LET w == save_numpy_to_geotiff(bounds, prediction, [exists |-> FALSE])
              r == load_raster(w.file, use_only_band_index)
          IN  /\ Returned(w.outcome)
              /\ Returned(r)
              /\ file = w.file
              /\ saved = [given |-> TRUE, grid |-> prediction]
              /\ tif = r.value
    /\ sample_data = <<>>
    /\ arg_isotope_column_names = <<>>
    /\ means_isoscapes = <<>>
    /\ variances_isoscapes = <<>>
    /\ arg_sample_size_per_location = 0

\* Band selectors of a query: the annual mean, or a month.
Selectors == {-1, 0, Months - 1}

GetDataAtCoords(x, y, month) ==
    /\ result' = [op |-> "query", x |-> x, y |-> y, month |-> month,
                  outcome |-> get_data_at_coords(tif, x, y, month)]
    /\ UNCHANGED <<bounds, rasterVars, hypVars, eeddfVars, eerasterVars>>

NextQuery ==
    \E x \in Lons(get_extent(tif.gdal_dataset)),
       y \in Lats(get_extent(tif.gdal_dataset)),
       month \in Selectors : GetDataAtCoords(x, y, month)

SpecQuery == InitQuery /\ [][NextQuery]_vars

\* C7: get_data_at_coords resolves the one cell coords_to_indices gives for
\* (lon, lat) and raises ValueError("Coordinates are masked") exactly when
\* that cell is invalid for the selector (a month: the band's mask there is
\* 0; annual: no band is valid there); otherwise it returns that cell's
\* value (annual: the mean of the cell's valid bands).
C7_QueryCell ==
    LET ext == get_extent(tif.gdal_dataset)
        inExtent == /\ ext.minx <= result.x /\ result.x <= ext.maxx
                    /\ ext.miny <= result.y /\ result.y <= ext.maxy
        cell == coords_to_indices(ext, result.x, result.y).value
        valid == {m \in 0..11 : tif.image_mask_array[<<cell[1], cell[2], m>>] # 0}
        invalid == IF result.month = -1 THEN valid = {}
                   ELSE result.month \notin valid
    IN  (result.op = "query" /\ inExtent) =>
            /\ <<cell[1], cell[2], 0>> \in DOMAIN tif.image_value_array
            /\ Raised(result.outcome, "ValueError", "Coordinates are masked")
                   <=> invalid
            /\ ~invalid =>
                  /\ Returned(result.outcome)
                  /\ IF result.month = -1
                     THEN result.outcome.value.num =
                              SumOver([m \in 0..11 |->
                                  tif.image_value_array[<<cell[1], cell[2], m>>]], valid)
                          /\ result.outcome.value.den = Cardinality(valid)
                     ELSE result.outcome.value =
                              Value(tif.image_value_array[
                                        <<cell[1], cell[2], result.month>>], 1)

----------------------------------------------------------------------------
(* hypothesis.py: sample_ttest *)

\* A float that may be NaN, as a fraction num / den (den > 0).
Rat(num, den) == [nan |-> FALSE, num |-> num, den |-> den]
NaN == [nan |-> TRUE, num |-> 0, den |-> 1]
F(v) == Rat(v, 1)

RECURSIVE Sum(_)
Sum(xs) == IF xs = <<>> THEN 0 ELSE Head(xs).num + Sum(Tail(xs))
RECURSIVE SumSq(_)
SumSq(xs) == IF xs = <<>> THEN 0 ELSE Head(xs).num * Head(xs).num + SumSq(Tail(xs))

\* isotope_values is a Python list (as sample_ttest declares it) or a pandas
\* Series (as get_predictions passes it): [type, values].
List(xs) == [type |-> "list", values |-> xs]
Series(xs) == [type |-> "Series", values |-> xs]

RECURSIVE NotNaN(_)
NotNaN(xs) ==
    IF xs = <<>> THEN <<>>
    ELSE (IF Head(xs).nan THEN <<>> ELSE <<Head(xs)>>) \o NotNaN(Tail(xs))

\* What np.mean and np.var reduce over: numpy propagates a NaN of a list;
\* for a Series they call Series.mean / Series.var, which skip NaN.
Counted(isotope_values) ==
    IF isotope_values.type = "Series" THEN NotNaN(isotope_values.values)
    ELSE isotope_values.values

Undefined(isotope_values) ==
    \/ Counted(isotope_values) = <<>>
    \/ \E i \in 1..Len(Counted(isotope_values)) : Counted(isotope_values)[i].nan

\* Line 56: np.mean(isotope_values) (the values are whole numbers here).
IsotopeMean(isotope_values) ==
    IF Undefined(isotope_values) THEN NaN
    ELSE Rat(Sum(Counted(isotope_values)), Len(Counted(isotope_values)))

\* Lines 57-58: np.var(isotope_values) * (n / (n - 1)) with n =
\* len(isotope_values); np.var is the population variance
\* (k * sum of squares - square of the sum) / k^2 of the k values counted.
IsotopeVariance(isotope_values) ==
    IF Undefined(isotope_values) THEN NaN
    ELSE LET xs == Counted(isotope_values)
             n == Len(isotope_values.values)
         IN  Rat((Len(xs) * SumSq(xs) - Sum(xs) * Sum(xs)) * n,
                 Len(xs) * Len(xs) * (n - 1))

\* p-values are held in units of 1 / PScale.
PScale == 4

\* scipy.stats.ttest_ind_from_stats(..., equal_var=False, two-sided), lines
\* 69-77, on means and variances (std squared) given as fractions.  The
\* statistic is t^2 = (mean1 - mean2)^2 / (var1/nobs1 + var2/nobs2) =
\* tnum / tden.  scipy's value is the Student-t tail probability of |t|; it
\* is NaN when an input is NaN or t is 0/0, 0 when t is infinite, 1 when
\* t = 0 and decreases with |t|.  The tail probability itself is not
\* computed here: PScale / (1 + t^2), rounded down, stands for it and keeps
\* those properties.
ttest_ind_from_stats(mean1, var1, nobs1, mean2, var2, nobs2) ==
    IF mean1.nan \/ var1.nan \/ mean2.nan \/ var2.nan THEN NaN
    ELSE
      LET d == mean1.num * mean2.den - mean2.num * mean1.den
          tnum == d * d * var1.den * nobs1 * var2.den * nobs2
          tden == mean1.den * mean2.den * mean1.den * mean2.den *
                     (var1.num * var2.den * nobs2 + var2.num * var1.den * nobs1)
      IN  IF tden = 0
          THEN IF tnum = 0 THEN NaN ELSE Rat(0, PScale)
          ELSE Rat((PScale * tden) \div (tden + tnum), PScale)

HypothesisTest(longitude, latitude, p_value, p_value_threshold) ==
    [longitude |-> longitude, latitude |-> latitude,
     p_value |-> p_value, p_value_threshold |-> p_value_threshold]

\* Mutant: a single value is accepted.
TooFewValues_OnlyEmpty(isotope_values) == Len(isotope_values.values) < 1

\* Line 53
TooFewValues(isotope_values) == Len(isotope_values.values) <= 1

\* Lines 66-79, given what the two isoscape queries of lines 61-64 gave:
\* an error of a query propagates; math.sqrt of a negative predicted variance
\* is a ValueError (line 71).
TStudentTest(longitude, latitude, isotope_values, predicted_isotope_mean, predicted_isotope_variance, sample_size_per_location, p_value_target) ==
    IF predicted_isotope_mean.kind = "raise"
    THEN [outcome |-> predicted_isotope_mean, queries |-> <<"mean">>]
    ELSE IF predicted_isotope_variance.kind = "raise"
    THEN [outcome |-> predicted_isotope_variance,
          queries |-> <<"mean", "variance">>]
    ELSE IF predicted_isotope_variance.value.num < 0
    THEN [outcome |-> Raise("ValueError", "math domain error"),
          queries |-> <<"mean", "variance">>]
    ELSE [outcome |-> Return(HypothesisTest(longitude, latitude,
              ttest_ind_from_stats(
                  Rat(predicted_isotope_mean.value.num,
                      predicted_isotope_mean.value.den),
                  Rat(predicted_isotope_variance.value.num,
                      predicted_isotope_variance.value.den),
                  sample_size_per_location,
                  IsotopeMean(isotope_values),
                  IsotopeVariance(isotope_values),
                  Len(isotope_values.values)),
              p_value_target)),
          queries |-> <<"mean", "variance">>]

\* sample_ttest, lines 35-79.  The result is the outcome and the isoscape
\* queries (get_data_at_coords calls) made, in order.  Both isoscapes are
\* queried at band 0.
sample_ttest(longitude, latitude, isotope_values, means_isoscape, variances_isoscape, sample_size_per_location, p_value_target) ==
    IF TooFewValues(isotope_values)
    THEN [outcome |-> Raise("ValueError", ""),   \* line 54: no message
          queries |-> <<>>]
    ELSE TStudentTest(longitude, latitude, isotope_values,
             get_data_at_coords(means_isoscape, longitude, latitude, 0),
             get_data_at_coords(variances_isoscape, longitude, latitude, 0),
             sample_size_per_location, p_value_target)

----------------------------------------------------------------------------
(* hypothesis.py: get_predictions *)

\* An observation row: [Code, long, lat, fraud, v], v[name] the value of
\* isotope column `name`.  The group key of lines 97-101.
KeyOf(row) == <<row.Code, row.long, row.lat, row.fraud>>

\* Tuples of numbers in lexicographic order.
RECURSIVE LexLess(_, _)
LexLess(a, b) ==
    /\ a # <<>> /\ b # <<>>
    /\ \/ Head(a) < Head(b)
       \/ Head(a) = Head(b) /\ LexLess(Tail(a), Tail(b))

\* groupby iterates the distinct keys in ascending order.
RECURSIVE SortedKeys(_)
SortedKeys(keys) ==
    IF keys = {} THEN <<>>
    ELSE LET least == CHOOSE k \in keys : \A o \in keys \ {k} : LexLess(k, o)
         IN  <<least>> \o SortedKeys(keys \ {least})

GroupKeys(data) == SortedKeys({KeyOf(data[r]) : r \in 1..Len(data)})

\* The rows of a group, in input order.
RECURSIVE GroupRows(_, _)
GroupRows(data, key) ==
    IF data = <<>> THEN <<>>
    ELSE (IF KeyOf(Head(data)) = key THEN <<Head(data)>> ELSE <<>>)
            \o GroupRows(Tail(data), key)

\* isotope_values[isotope_column_name], line 112: a pandas Series
Column(rows, name) == Series([r \in 1..Len(rows) |-> rows[r].v[name]])

\* Mutant: no group is skipped for its size.
SmallGroup_Never(rows) == FALSE

\* Line 105
SmallGroup(rows) == Len(rows) <= 1

\* Mutant: the first p-value alone is the composite.
Prod_First(p_values) == IF p_values = <<>> THEN Rat(1, 1) ELSE p_values[1]

\* np.array(p_values).prod(), line 118: NaN if any factor is NaN.
RECURSIVE Prod(_)
Prod(p_values) ==
    IF p_values = <<>> THEN Rat(1, 1)
    ELSE LET rest == Prod(Tail(p_values))
         IN  IF Head(p_values).nan \/ rest.nan THEN NaN
             ELSE Rat(Head(p_values).num * rest.num, Head(p_values).den * rest.den)

\* Lines 109-117: the tests of one group, column i onwards.  An error raised
\* by sample_ttest is not caught.  a holds the arguments of get_predictions.
RECURSIVE ColumnTests(_, _, _, _, _, _)
RECURSIVE AppendPValue(_, _, _, _, _, _, _)
ColumnTests(a, group_key, rows, i, p_values, queries) ==
    IF i > Len(a.isotope_column_names)
    THEN [outcome |-> Return(p_values), queries |-> queries]
    ELSE AppendPValue(a, group_key, rows, i, p_values, queries,
             sample_ttest(group_key[2], group_key[3],
                          Column(rows, a.isotope_column_names[i]),
                          a.means_isoscapes[i], a.variances_isoscapes[i],
                          a.sample_size_per_location, "None"))

\* Line 117, hypothesis_test being what sample_ttest gave for column i.
AppendPValue(a, group_key, rows, i, p_values, queries, hypothesis_test) ==
    LET made == queries \o [q \in 1..Len(hypothesis_test.queries) |->
                              [key |-> group_key, column |-> i,
                               isoscape |-> hypothesis_test.queries[q]]]
    IN  IF hypothesis_test.outcome.kind = "raise"
        THEN [outcome |-> hypothesis_test.outcome, queries |-> made]
        ELSE ColumnTests(a, group_key, rows, i + 1,
                 Append(p_values, hypothesis_test.outcome.value.p_value), made)

\* Lines 122-126
PredictionRow(group_key, combined_p_value) ==
    [Code |-> group_key[1], lat |-> group_key[2], long |-> group_key[3],
     fraud |-> group_key[4], predicted_fraud |-> combined_p_value]

\* Lines 104-129: the loop over the groups.
RECURSIVE GroupLoop(_, _, _, _)
RECURSIVE Combine(_, _, _, _, _)
GroupLoop(a, keys, predictions, queries) ==
    IF keys = <<>>
    THEN [outcome |-> Return(predictions), queries |-> queries]
    ELSE IF SmallGroup(GroupRows(a.sample_data, Head(keys)))
    THEN GroupLoop(a, Tail(keys), predictions, queries)
    ELSE Combine(a, keys, predictions, Head(keys),
             ColumnTests(a, Head(keys), GroupRows(a.sample_data, Head(keys)),
                         1, <<>>, queries))

\* Lines 118-127, tests being what the column loop of the group gave.
Combine(a, keys, predictions, group_key, tests) ==
    LET combined_p_value == Prod(tests.outcome.value)
    IN  IF tests.outcome.kind = "raise"
        THEN tests
        ELSE IF combined_p_value.nan
        THEN GroupLoop(a, Tail(keys), predictions, tests.queries)
        ELSE GroupLoop(a, Tail(keys),
                       Append(predictions,
                              PredictionRow(group_key, combined_p_value)),
                       tests.queries)

\* get_predictions, lines 81-129
get_predictions(data, isotope_column_names, means, variances, sample_size_per_location) ==
    GroupLoop([sample_data |-> data,
               isotope_column_names |-> isotope_column_names,
               means_isoscapes |-> means,
               variances_isoscapes |-> variances,
               sample_size_per_location |-> sample_size_per_location],
              GroupKeys(data), <<>>, <<>>)

----------------------------------------------------------------------------
(* The isoscapes and samples the tests are exercised on *)

\* Every isoscape is a 1-band raster of one row and two columns with 2-tick
\* pixels, extent [0, 4] x [8, 10], written and loaded by the operators above.
IsoBounds == Bounds(0, 4, 8, 10, 2, -2, 2, 1)

\* The isoscape with value west / east (band 0) in the western / eastern
\* cell, the eastern cell masked if eastMasked.
Isoscape(west, east, eastMasked) ==
    LET shape == <<2, 1, 1>>
        grid == [shape |-> shape,
                 data |-> [i \in Indices(shape) |-> IF i[1] = 0 THEN west ELSE east],
                 mask |-> [i \in Indices(shape) |-> i[1] = 1 /\ eastMasked]]
    IN  load_raster(save_numpy_to_geotiff(IsoBounds, grid, [exists |-> FALSE]).file,
                    -1).value

\* One [means, variances] pair of isoscape lists (two isotope columns each):
\*   "plain":  every cell valid; the eastern cell has variance 0 in column 1;
\*   "masked": the eastern cell is masked in the variance isoscape of column 2;
\*   "negvar": the eastern cell has a negative variance in column 1.
IsoscapeKinds == {"plain", "masked", "negvar"}
MeansFor(kind) == <<Isoscape(0, 2, FALSE), Isoscape(1, 1, FALSE)>>
VariancesFor(kind) ==
    <<Isoscape(1, IF kind = "negvar" THEN -1 ELSE 0, FALSE),
      Isoscape(2, 1, kind = "masked")>>

\* Sample locations <<longitude, latitude>>: in the western cell, in the
\* eastern cell, east of the extent, and on the southern edge of the extent.
LocWest == <<1, 9>>
LocEast == <<3, 9>>
LocOutside == <<7, 9>>
LocEdge == <<1, 8>>

\* Isotope values measured
IsotopeValues == {F(0), F(2), NaN}

\* The caller's p_value_target: None, or 0.05
Targets == {"None", "0.05"}

\* sample_size_per_location
SampleSizes == {2, 3}

\* Isotope value lists of up to MaxValues values.  The statistics of
\* sample_ttest do not depend on the order of the values, so the lists are
\* taken in one order (numbers ascending, NaN last).
MaxValues == 2
Rank(v) == IF v.nan THEN 3 ELSE v.num
ValueLists ==
    UNION {{List(xs) : xs \in {ys \in [1..n -> IsotopeValues] :
                \A i \in 1..n, j \in 1..n : i < j => Rank(ys[i]) <= Rank(ys[j])}} :
           n \in 0..MaxValues}

----------------------------------------------------------------------------
(* Specification SpecTTest: sample_ttest against one pair of isoscapes *)

InitTTest ==
    /\ bounds = IsoBounds
    /\ result = NoCall
    /\ ModulesLoaded
    /\ file = [exists |-> FALSE]
    /\ tif = [loaded |-> FALSE]
    /\ saved = [given |-> FALSE]
    /\ sample_data = <<>>
    /\ arg_isotope_column_names = <<>>
    /\ arg_sample_size_per_location = 0
    /\ \E kind \in IsoscapeKinds :
          /\ means_isoscapes = MeansFor(kind)
          /\ variances_isoscapes = VariancesFor(kind)

\* sample_ttest(longitude, latitude, isotope_values, means_isoscapes[i],
\*              variances_isoscapes[i], sample_size_per_location, p_value_target)
SampleTTest(loc, isotope_values, i, sample_size_per_location, p_value_target) ==
    LET r == sample_ttest(loc[1], loc[2], isotope_values, means_isoscapes[i],
                          variances_isoscapes[i], sample_size_per_location,
                          p_value_target)
    IN  /\ result' = [op |-> "sample_ttest",
                      longitude |-> loc[1], latitude |-> loc[2],
                      isotope_values |-> isotope_values, column |-> i,
                      sample_size_per_location |-> sample_size_per_location,
                      p_value_target |-> p_value_target,
                      outcome |-> r.outcome, queries |-> r.queries]
        /\ UNCHANGED <<bounds, rasterVars, hypVars, eeddfVars, eerasterVars>>

NextTTest ==
    \E loc \in {LocWest, LocEast, LocOutside, LocEdge},
       isotope_values \in ValueLists,
       i \in 1..2, sample_size_per_location \in SampleSizes,
       p_value_target \in Targets :
        SampleTTest(loc, isotope_values, i, sample_size_per_location, p_value_target)

SpecTTest == InitTTest /\ [][NextTTest]_vars

Tested == result.op = "sample_ttest"

InsufficientSamples(o) ==
    Raised(o, "ValueError", "")

\* The HypothesisTest returned carries the call's longitude, latitude and
\* p_value_target.
CarriesArguments ==
    /\ Returned(result.outcome)
    /\ result.outcome.value.longitude = result.longitude
    /\ result.outcome.value.latitude = result.latitude
    /\ result.outcome.value.p_value_threshold = result.p_value_target

\* C8 as claimed: sample_ttest raises ValueError for fewer than 2 values,
\* before any isoscape query, and with 2 or more values returns a
\* HypothesisTest carrying longitude, latitude and p_value_target.
C8_AlwaysReturns ==
    Tested =>
        /\ Len(result.isotope_values.values) < 2 =>
              InsufficientSamples(result.outcome) /\ result.queries = <<>>
        /\ Len(result.isotope_values.values) >= 2 => CarriesArguments

\* Both isoscapes of the tested column have a value at the location, and the
\* predicted variance is not negative.
Predictable ==
    LET m == get_data_at_coords(means_isoscapes[result.column],
                                result.longitude, result.latitude, 0)
        v == get_data_at_coords(variances_isoscapes[result.column],
                                result.longitude, result.latitude, 0)
    IN  Returned(m) /\ Returned(v) /\ v.value.num >= 0

\* C8 (amended): sample_ttest raises ValueError for fewer than 2 values,
\* before any isoscape query.  With 2 or more values it returns a
\* HypothesisTest carrying longitude, latitude and p_value_target when both
\* isoscape queries at the location return a value and the predicted variance
\* is not negative, and otherwise raises the error of the failed query or of
\* the square root, which is not the InsufficientSamples error.
C8_ReturnsWhenPredictable ==
    Tested =>
        /\ Len(result.isotope_values.values) < 2 =>
              InsufficientSamples(result.outcome) /\ result.queries = <<>>
        /\ (Len(result.isotope_values.values) >= 2 /\ Predictable) => CarriesArguments
        /\ (Len(result.isotope_values.values) >= 2 /\ ~Predictable) =>
              /\ result.outcome.kind = "raise"
              /\ ~InsufficientSamples(result.outcome)
              /\ result.queries # <<>>

\* Two identical values (variance 0) at a cell whose predicted variance is 0
\* and whose predicted mean is that value: the test returns (its p-value NaN).
C8_Witness ==
    /\ Tested
    /\ result.isotope_values = List(<<F(2), F(2)>>)
    /\ result.longitude = LocEast[1] /\ result.column = 1
    /\ CarriesArguments
    /\ result.outcome.value.p_value.nan
    /\ result.p_value_target = "0.05"

----------------------------------------------------------------------------
(* Specification SpecPredict: get_predictions over a sample table *)

\* Group keys <<Code, long, lat, fraud>> of the samples: sample 1 in the
\* western cell with either fraud label, sample 2 in the eastern cell,
\* sample 3 east of the extent.
SampleKeys ==
    << <<1, LocWest[1], LocWest[2], 0>>, <<1, LocWest[1], LocWest[2], 1>>,
       <<2, LocEast[1], LocEast[2], 1>>, <<3, LocOutside[1], LocOutside[2], 0>> >>

ColumnNames == <<"d18O", "d13C">>

\* The measurements of one row
Measurements ==
    << [d18O |-> F(0), d13C |-> F(0)],
       [d18O |-> F(2), d13C |-> F(0)],
       [d18O |-> F(2), d13C |-> NaN] >>

\* The rows, numbered by key and then by measurement.
NumRows == Len(SampleKeys) * Len(Measurements)
RowAt(n) ==
    LET k == SampleKeys[((n - 1) \div Len(Measurements)) + 1]
        m == Measurements[((n - 1) % Len(Measurements)) + 1]
    IN  [Code |-> k[1], long |-> k[2], lat |-> k[3], fraud |-> k[4], v |-> m]

\* Tables of up to MaxRows rows.  get_predictions does not depend on the
\* order of the rows (groups are sorted by key, and the statistics of a
\* group do not depend on the order of its values), so the tables are taken
\* in one order of the rows.
MaxRows == 4
Tables ==
    UNION {{[r \in 1..n |-> RowAt(pick[r])] :
               pick \in {f \in [1..n -> 1..NumRows] :
                            \A i \in 1..n, j \in 1..n : i < j => f[i] <= f[j]}} :
           n \in 0..MaxRows}

InitPredict ==
    /\ bounds = IsoBounds
    /\ result = NoCall
    /\ ModulesLoaded
    /\ file = [exists |-> FALSE]
    /\ tif = [loaded |-> FALSE]
    /\ saved = [given |-> FALSE]
    /\ \E kind \in IsoscapeKinds :
          /\ means_isoscapes = MeansFor(kind)
          /\ variances_isoscapes = VariancesFor(kind)
    /\ \E n \in 1..Len(ColumnNames) :
          arg_isotope_column_names = SubSeq(ColumnNames, 1, n)
    /\ arg_sample_size_per_location \in SampleSizes
    /\ sample_data \in Tables

\* get_predictions(sample_data, isotope_column_names, means_isoscapes,
\*                 variances_isoscapes, sample_size_per_location)
Called(r) == [op |-> "get_predictions", outcome |-> r.outcome, queries |-> r.queries]
GetPredictions ==
    /\ result' = Called(get_predictions(sample_data, arg_isotope_column_names,
                                        means_isoscapes, variances_isoscapes,
                                        arg_sample_size_per_location))
    /\ UNCHANGED <<bounds, rasterVars, hypVars, eeddfVars, eerasterVars>>

NextPredict == GetPredictions

SpecPredict == InitPredict /\ [][NextPredict]_vars

Predicted == result.op = "get_predictions"

\* The group keys of the table and the number of rows of a group.
TableKeys == {KeyOf(sample_data[r]) : r \in 1..Len(sample_data)}
GroupSize(k) == Cardinality({r \in 1..Len(sample_data) : KeyOf(sample_data[r]) = k})

\* An output row is the row of group k: it has k's sample id and fraud
\* label, and its two location columns hold k's longitude and latitude
\* (which column holds which is not looked at here).
RowOf(row, k) ==
    /\ row.Code = k[1] /\ row.fraud = k[4]
    /\ {row.long, row.lat} = {k[2], k[3]}

\* C9: get_predictions skips every group of fewer than 2 rows: it makes no
\* isoscape query for it, raises no InsufficientSamples error and outputs no
\* row for it; over a table in which every group has exactly one row it
\* returns an empty result.
C9_SmallGroupsSkipped ==
    Predicted =>
        /\ \A q \in 1..Len(result.queries) : GroupSize(result.queries[q].key) >= 2
        /\ ~InsufficientSamples(result.outcome)
        /\ Returned(result.outcome) =>
              \A j \in 1..Len(result.outcome.value) :
                  \E k \in TableKeys :
                      GroupSize(k) >= 2 /\ RowOf(result.outcome.value[j], k)
        /\ (\A k \in TableKeys : GroupSize(k) = 1) =>
              /\ Returned(result.outcome)
              /\ result.outcome.value = <<>>
              /\ result.queries = <<>>

\* Three groups of one row each, one of them outside the isoscapes' extent:
\* the result is empty and nothing was queried.
C9_Witness ==
    /\ Predicted
    /\ Cardinality(TableKeys) = 3
    /\ \A k \in TableKeys : GroupSize(k) = 1
    /\ \E k \in TableKeys : k[2] = LocOutside[1]
    /\ Returned(result.outcome) /\ result.outcome.value = <<>>

\* The p-value of group k in column i, and the product over the columns
\* tested (one or two).
PValueOf(k, i) ==
    sample_ttest(k[2], k[3],
                 Column(GroupRows(sample_data, k), arg_isotope_column_names[i]),
                 means_isoscapes[i], variances_isoscapes[i],
                 arg_sample_size_per_location, "None").outcome.value.p_value
Times(p, q) ==
    IF p.nan \/ q.nan THEN NaN ELSE Rat(p.num * q.num, p.den * q.den)
Composite(k) ==
    IF Len(arg_isotope_column_names) = 1 THEN PValueOf(k, 1)
    ELSE Times(PValueOf(k, 1), PValueOf(k, 2))

\* A group is retained if it has at least 2 rows and its composite score is
\* a number (p-values lie in [0, 1] or are NaN, so finite means not NaN).
Retained == {k \in TableKeys : GroupSize(k) >= 2 /\ ~Composite(k).nan}

\* C10: what get_predictions returns has exactly one row per retained group
\* and no other row, and the composite score of a group's row is the product
\* of the group's p-values, column i tested against means_isoscapes[i] and
\* variances_isoscapes[i].
C10_OneRowPerRetainedGroup ==
    (Predicted /\ Returned(result.outcome)) =>
        LET rows == result.outcome.value
        IN  /\ Len(rows) = Cardinality(Retained)
            /\ \A k \in Retained :
                  \E j \in 1..Len(rows) :
                      /\ RowOf(rows[j], k)
                      /\ rows[j].predicted_fraud = Composite(k)
            /\ \A j \in 1..Len(rows) : \E k \in Retained : RowOf(rows[j], k)

\* Two columns, two groups of two rows: one is retained with a composite
\* score strictly between 0 and 1, the other is skipped for its NaN score.
C10_Witness ==
    /\ Predicted /\ Returned(result.outcome)
    /\ Len(arg_isotope_column_names) = 2
    /\ Len(result.outcome.value) = 1
    /\ result.outcome.value[1].predicted_fraud.num > 0
    /\ result.outcome.value[1].predicted_fraud.num
           < result.outcome.value[1].predicted_fraud.den
    /\ \E k \in TableKeys : GroupSize(k) = 2 /\ k \notin Retained

\* C11: every row that get_predictions outputs carries the key of a group of
\* at least 2 rows of the table: its Code, long, lat and fraud are that
\* group's sample id, longitude, latitude and fraud label.
C11_RowsCarryKey ==
    (Predicted /\ Returned(result.outcome)) =>
        \A j \in 1..Len(result.outcome.value) :
            LET row == result.outcome.value[j]
            IN  /\ <<row.Code, row.long, row.lat, row.fraud>> \in TableKeys
                /\ GroupSize(<<row.Code, row.long, row.lat, row.fraud>>) >= 2

\* The groups of at least 2 rows whose every column can be tested: both
\* isoscapes of the column have a value at the group's location.
Testable ==
    {k \in TableKeys :
        /\ GroupSize(k) >= 2
        /\ \A i \in 1..Len(arg_isotope_column_names) :
              Returned(sample_ttest(k[2], k[3],
                           Column(GroupRows(sample_data, k), arg_isotope_column_names[i]),
                           means_isoscapes[i], variances_isoscapes[i],
                           arg_sample_size_per_location, "None").outcome)}

\* C16: get_predictions does not raise the out-of-bounds or masked-value
\* error of a group's isoscape query, and what it returns has a row for every
\* group that can be tested and whose composite score is a number.
C16_ErrorsStayInGroup ==
    Predicted =>
        /\ ~Raised(result.outcome, "ValueError", "Coordinates out of bounds")
        /\ ~Raised(result.outcome, "ValueError", "Coordinates are masked")
        /\ Returned(result.outcome) =>
              \A k \in Testable :
                  ~Composite(k).nan =>
                      \E j \in 1..Len(result.outcome.value) :
                          RowOf(result.outcome.value[j], k)

----------------------------------------------------------------------------
(* hypothesis.py: fraud_metrics *)

\* Numbers compared as fractions (denominators are positive).
RatEq(a, b) == ~a.nan /\ ~b.nan /\ a.num * b.den = b.num * a.den
RatLess(a, b) == a.num * b.den < b.num * a.den

\* The distinct scores of the prediction rows, ascending.
RECURSIVE Ascending(_)
Ascending(scores) ==
    IF scores = {} THEN <<>>
    ELSE LET least == CHOOSE x \in scores : \A y \in scores : ~RatLess(y, x)
         IN  <<least>> \o Ascending({y \in scores : RatLess(least, y)})

\* sklearn's _binary_clf_curve: the number of rows of label `label` whose
\* score is at least the threshold.
AtLeast(predictions, label, threshold) ==
    Cardinality({j \in 1..Len(predictions) :
                    /\ predictions[j].fraud = label
                    /\ ~RatLess(predictions[j].predicted_fraud, threshold)})

Positives(predictions) ==
    Cardinality({j \in 1..Len(predictions) : predictions[j].fraud = 1})

\* precision = tps / (tps + fps) at a threshold
PrecisionAt(predictions, threshold) ==
    Rat(AtLeast(predictions, 1, threshold),
        AtLeast(predictions, 1, threshold) + AtLeast(predictions, 0, threshold))

\* recall = tps / tps[-1] at a threshold.  With no positive row, releases of
\* sklearn from 1.1 on give 1 and earlier ones 0/0 = NaN.
RecallAt(predictions, threshold, early) ==
    IF Positives(predictions) = 0
    THEN IF early THEN NaN ELSE Rat(1, 1)
    ELSE Rat(AtLeast(predictions, 1, threshold), Positives(predictions))

\* The thresholds of the curve, ascending: the distinct scores; earlier
\* releases of sklearn stop the curve where full recall is attained, keeping
\* only the thresholds from the largest one that still has every positive row
\* at or above it.
Thresholds(predictions, early) ==
    LET all == Ascending({predictions[j].predicted_fraud : j \in 1..Len(predictions)})
        full == {i \in 1..Len(all) :
                    AtLeast(predictions, 1, all[i]) = Positives(predictions)}
        first == CHOOSE i \in full : \A o \in full : o <= i
    IN  IF early THEN SubSeq(all, first, Len(all)) ELSE all

\* precision_recall_curve(y_true, y_pred), lines 156-157: precision and recall
\* per threshold, followed by the final point (precision 1, recall 0).
precision_recall_curve(predictions, early) ==
    LET thresholds == Thresholds(predictions, early)
    IN  [precision |-> [i \in 1..Len(thresholds) |->
                           PrecisionAt(predictions, thresholds[i])] \o <<Rat(1, 1)>>,
         recall |-> [i \in 1..Len(thresholds) |->
                        RecallAt(predictions, thresholds[i], early)] \o <<Rat(0, 1)>>,
         thresholds |-> thresholds]

\* np.where(thresholds == p_value_target), line 159: the indices, from i on,
\* of the thresholds equal to the target.
RECURSIVE Where(_, _, _)
Where(thresholds, p_value_target, i) ==
    IF i > Len(thresholds) THEN <<>>
    ELSE (IF RatEq(thresholds[i], p_value_target) THEN <<i>> ELSE <<>>)
            \o Where(thresholds, p_value_target, i + 1)

\* precision[idx], recall[idx], line 163
Take(array, idx) == [n \in 1..Len(idx) |-> array[idx[n]]]

\* Mutant: the label is compared with the score rounded to 0 or 1.
LabelIsScore_Rounded(row) ==
    row.fraud = (IF 2 * row.predicted_fraud.num >= row.predicted_fraud.den THEN 1 ELSE 0)

\* predictions['fraud'] == predictions['predicted_fraud'], line 161
LabelIsScore(row) == RatEq(F(row.fraud), row.predicted_fraud)

\* Lines 160-161
Accuracy(predictions) ==
    Rat(Cardinality({j \in 1..Len(predictions) : LabelIsScore(predictions[j])}),
        Len(predictions))

FraudMetrics(isotope_column_names, accuracy, precision, recall) ==
    [isotope_column_names |-> isotope_column_names, accuracy |-> accuracy,
     precision |-> precision, recall |-> recall]

\* Line 159
Selected(curve, p_value_target) == Where(curve.thresholds, p_value_target, 1)

\* Lines 159-163, given the curve of lines 156-157
Report(isotope_column_names, predictions, curve, p_value_target) ==
    FraudMetrics(isotope_column_names, Accuracy(predictions),
                 Take(curve.precision, Selected(curve, p_value_target)),
                 Take(curve.recall, Selected(curve, p_value_target)))

\* Lines 154-163, given what get_predictions gave: its error propagates, and
\* predictions['fraud'] of the empty DataFrame (no column) is a KeyError.
Evaluate(isotope_column_names, predictions, p_value_target, early) ==
    IF predictions.kind = "raise" THEN predictions
    ELSE IF predictions.value = <<>> THEN Raise("KeyError", "fraud")
    ELSE Return(Report(isotope_column_names, predictions.value,
                       precision_recall_curve(predictions.value, early),
                       p_value_target))

\* fraud_metrics, lines 131-163.  early tells which release of sklearn the
\* build has.
fraud_metrics(data, isotope_column_names, means, variances, sample_size_per_location, p_value_target, early) ==
    Evaluate(isotope_column_names,
             get_predictions(data, isotope_column_names, means, variances,
                             sample_size_per_location).outcome,
             p_value_target, early)

----------------------------------------------------------------------------
(* Specification SpecMetrics: fraud_metrics over a sample table *)

\* The rows of the group of key number k with the measurements numbered by
\* choice (RowAt numbers the rows by key and then by measurement).
RowsOf(k, choice) ==
    [r \in 1..Len(choice) |-> RowAt((k - 1) * Len(Measurements) + choice[r])]

\* The group of the first key has up to MaxGroupRows rows, each with the
\* first or the second measurement, in one order (see Tables).
MaxGroupRows == 2
GroupChoices ==
    UNION {{c \in [1..n -> 1..2] :
               \A i \in 1..n, j \in 1..n : i < j => c[i] <= c[j]} :
           n \in 0..MaxGroupRows}

\* The groups of the other keys inside the extent: none, two equal rows or
\* two different rows.
PairChoices == {<<>>, <<1, 1>>, <<1, 2>>}

\* Tables with a group per key; the key east of the extent has no group or a
\* group of two rows.
MetricTables ==
    {RowsOf(1, c1) \o RowsOf(2, c2) \o RowsOf(3, c3) \o RowsOf(4, c4) :
        c1 \in GroupChoices, c2 \in PairChoices, c3 \in PairChoices,
        c4 \in {<<>>, <<1, 1>>}}

\* p_value_target: 0, 0.5 and 0.05
MetricTargets == {Rat(0, 1), Rat(1, 2), Rat(1, 20)}

InitMetrics ==
    /\ bounds = IsoBounds
    /\ result = NoCall
    /\ ModulesLoaded
    /\ file = [exists |-> FALSE]
    /\ tif = [loaded |-> FALSE]
    /\ saved = [given |-> FALSE]
    /\ \E kind \in IsoscapeKinds :
          /\ means_isoscapes = MeansFor(kind)
          /\ variances_isoscapes = VariancesFor(kind)
    /\ \E n \in 1..Len(ColumnNames) :
          arg_isotope_column_names = SubSeq(ColumnNames, 1, n)
    /\ arg_sample_size_per_location = 2
    /\ sample_data \in MetricTables

\* fraud_metrics(sample_data, isotope_column_names, means_isoscapes,
\*               variances_isoscapes, sample_size_per_location, p_value_target)
FraudMetricsCall(p_value_target, early) ==
    /\ result' = [op |-> "fraud_metrics", p_value_target |-> p_value_target,
                  early |-> early,
                  outcome |-> fraud_metrics(sample_data, arg_isotope_column_names,
                                            means_isoscapes, variances_isoscapes,
                                            arg_sample_size_per_location,
                                            p_value_target, early)]
    /\ UNCHANGED <<bounds, rasterVars, hypVars, eeddfVars, eerasterVars>>

NextMetrics ==
    \E p_value_target \in MetricTargets, early \in BOOLEAN :
        FraudMetricsCall(p_value_target, early)

SpecMetrics == InitMetrics /\ [][NextMetrics]_vars

Evaluated == result.op = "fraud_metrics"

\* Every group of the table of at least 2 rows can be tested (its location
\* has a value in every isoscape used) and some group is retained:
\* get_predictions returns at least one row.
Scored ==
    /\ Testable = {k \in TableKeys : GroupSize(k) >= 2}
    /\ Retained # {}

\* The retained groups whose fraud label is exactly their composite score.
ExactGroups ==
    {k \in Retained : Composite(k).num = k[4] * Composite(k).den}

\* C12: when get_predictions returns rows, fraud_metrics returns the accuracy
\* (number of rows whose fraud label equals their composite score) / (number
\* of rows), one row standing for each retained group; it is 0 when every
\* composite score lies strictly between 0 and 1.
C12_AccuracyExactEquality ==
    (Evaluated /\ Scored) =>
        /\ Returned(result.outcome)
        /\ result.outcome.value.accuracy.den = Cardinality(Retained)
        /\ result.outcome.value.accuracy.num = Cardinality(ExactGroups)
        /\ (\A k \in Retained :
               Composite(k).num > 0 /\ Composite(k).num < Composite(k).den)
              => result.outcome.value.accuracy.num = 0

\* Three groups are scored, with labels 0, 1, 1 and all scores strictly
\* between 0 and 1: the accuracy is 0 / 3.
C12_Witness ==
    /\ Evaluated /\ Scored
    /\ Cardinality(Retained) = 3
    /\ \A k \in Retained :
          Composite(k).num > 0 /\ Composite(k).num < Composite(k).den
    /\ Returned(result.outcome)
    /\ result.outcome.value.accuracy = Rat(0, 3)

\* The rows get_predictions gives for the table (none if it raises), and the
\* thresholds of their precision/recall curve.
ScoredRows ==
    LET predictions == get_predictions(sample_data, arg_isotope_column_names,
                                       means_isoscapes, variances_isoscapes,
                                       arg_sample_size_per_location).outcome
    IN  IF Returned(predictions) THEN predictions.value ELSE <<>>
Breakpoints ==
    IF ScoredRows = <<>> THEN <<>> ELSE Thresholds(ScoredRows, result.early)

\* C13: fraud_metrics returns a FraudMetrics whose precision and recall are
\* those of the curve breakpoint whose threshold equals p_value_target, and
\* are empty when no breakpoint's threshold equals it; it does not fail.
C13_ExactThreshold ==
    Evaluated =>
        /\ Returned(result.outcome)
        /\ \A i \in 1..Len(Breakpoints) :
              RatEq(Breakpoints[i], result.p_value_target) =>
                  /\ result.outcome.value.precision =
                         <<PrecisionAt(ScoredRows, Breakpoints[i])>>
                  /\ result.outcome.value.recall =
                         <<RecallAt(ScoredRows, Breakpoints[i], result.early)>>
        /\ (\A i \in 1..Len(Breakpoints) :
               ~RatEq(Breakpoints[i], result.p_value_target)) =>
                  /\ result.outcome.value.precision = <<>>
                  /\ result.outcome.value.recall = <<>>

----------------------------------------------------------------------------
(* Bounds *)

\* C14: the Bounds in use has maxx and miny derived from minx, maxy, the
\* signed pixel sizes and the raster sizes:
\* maxx = minx + pixel_size_x * raster_size_x and
\* miny = maxy + pixel_size_y * raster_size_y.
C14_BoundsDerived ==
    /\ bounds.maxx = bounds.minx + bounds.pixel_size_x * bounds.raster_size_x
    /\ bounds.miny = bounds.maxy + bounds.pixel_size_y * bounds.raster_size_y

\* C17: with maxx and miny derived from the origin and the sizes, every
\* coordinate coords_to_indices accepts, the edges of the extent included,
\* resolves to a cell of the grid: 0 <= row < raster_size_y and
\* 0 <= column < raster_size_x.
C17_AcceptedResolves ==
    (Indexed /\ Consistent(bounds) /\ Returned(result.outcome)) =>
        /\ 0 <= result.outcome.value[1]
        /\ result.outcome.value[1] < bounds.raster_size_y
        /\ 0 <= result.outcome.value[2]
        /\ result.outcome.value[2] < bounds.raster_size_x

----------------------------------------------------------------------------
(* eeddf.py: initialize_ddf, is_test_environment *)

\* The Earth Engine project of an environment, lines 50-53.
Project(test_environment) ==
    IF test_environment THEN "river-sky-386919" ELSE "timberid-prd"

\* Where the body of the first initialisation may fail: the imports of lines
\* 45-46 (outside Colab), auth.authenticate_user (47), google.auth.default
\* (49), ee.Initialize (51, 53); or nowhere.
Failures == {"none", "import", "authenticate_user", "default", "Initialize"}

FailureOutcome(failure) ==
    CASE failure = "none" -> Return("None")
      [] failure = "import" -> Raise("ImportError", "google.colab")
      [] failure = "authenticate_user" -> Raise("Exception", "auth.authenticate_user")
      [] failure = "default" -> Raise("DefaultCredentialsError", "google.auth.default")
      [] failure = "Initialize" -> Raise("EEException", "ee.Initialize")

\* Mutant: every call initialises.
Uninitialized_Always == TRUE

\* Line 41
Uninitialized == ~_initialized

\* The initialize_ddf calls of one behaviour
MaxCalls == 4

\* initialize_ddf(test_environment), lines 27-53.  The flags are set (lines
\* 42-43) before anything that can fail.
initialize_ddf(test_environment, failure) ==
    /\ Len(calls) < MaxCalls
    /\ calls' = Append(calls, test_environment)
    /\ IF Uninitialized
       THEN /\ _test_environment' = test_environment
            /\ _initialized' = TRUE
            /\ authenticated' =
                   IF failure = "import" THEN authenticated ELSE authenticated + 1
            /\ ee_projects' =
                   IF failure \in {"none", "Initialize"}
                   THEN Append(ee_projects, Project(test_environment))
                   ELSE ee_projects
            /\ result' = [op |-> "initialize_ddf", outcome |-> FailureOutcome(failure)]
       ELSE /\ UNCHANGED <<_test_environment, _initialized, authenticated, ee_projects>>
            /\ result' = [op |-> "initialize_ddf", outcome |-> Return("None")]
    /\ UNCHANGED <<bounds, rasterVars, hypVars, eerasterVars>>

\* is_test_environment(), lines 55-60
is_test_environment ==
    /\ result' = [op |-> "is_test_environment", outcome |-> Return(_test_environment)]
    /\ UNCHANGED <<bounds, rasterVars, hypVars, eeddfVars, eerasterVars>>

----------------------------------------------------------------------------
(* Specification SpecEnvironment: initialize_ddf and is_test_environment *)

InitEnvironment ==
    /\ bounds = IsoBounds
    /\ result = NoCall
    /\ ModulesLoaded
    /\ file = [exists |-> FALSE]
    /\ tif = [loaded |-> FALSE]
    /\ saved = [given |-> FALSE]
    /\ sample_data = <<>>
    /\ arg_isotope_column_names = <<>>
    /\ arg_sample_size_per_location = 0
    /\ means_isoscapes = <<>>
    /\ variances_isoscapes = <<>>

NextEnvironment ==
    \/ \E test_environment \in BOOLEAN, failure \in Failures :
          initialize_ddf(test_environment, failure)
    \/ is_test_environment

SpecEnvironment == InitEnvironment /\ [][NextEnvironment]_vars

\* C15: once initialize_ddf has been called, the environment is the
\* test_environment argument of the first call, whatever the later calls
\* asked for, and is_test_environment() returns it; auth.authenticate_user
\* and ee.Initialize have each been called at most once, the latter with the
\* project of that environment.
C15_InitializedOnce ==
    /\ calls # <<>> =>
          /\ _test_environment = calls[1]
          /\ result.op = "is_test_environment" => result.outcome.value = calls[1]
          /\ \A i \in 1..Len(ee_projects) : ee_projects[i] = Project(calls[1])
    /\ authenticated <= 1
    /\ Len(ee_projects) <= 1

\* The test environment was asked for first and the production environment
\* by two later calls: is_test_environment() returns True, after one
\* authentication and one ee.Initialize.
C15_Witness ==
    /\ calls = <<TRUE, FALSE, FALSE>>
    /\ result.op = "is_test_environment"
    /\ result.outcome.value = TRUE
    /\ authenticated = 1
    /\ ee_projects = <<"river-sky-386919">>

----------------------------------------------------------------------------
(* eeraster.py: set_ee_options, eeRaster.values_at_df *)

\* A table is the sequence of its rows; a row is known by its position.
\* The row values (the rounding of lines 183-184) and what Earth Engine
\* answers for a chunk are not modelled.

\* A Python slice bound on a sequence of length n
Clip(i, n) ==
    IF i < 0 THEN (IF n + i < 0 THEN 0 ELSE n + i) ELSE (IF i > n THEN n ELSE i)

\* df.iloc[start:end, :], line 190
Slice(table, from, to) ==
    SubSeq(table, Clip(from, Len(table)) + 1, Clip(to, Len(table)))

\* while (start < len(df)), line 188
Continue == start < Len(df)

\* end = start + _CHUNK_SIZE, line 189
NextEnd == start + _CHUNK_SIZE

\* The chunks that fit in memory: appending one more to query_list is a
\* MemoryError.
MaxQueries == 5

\* set_ee_options(chunk_size=...), lines 92-120: of the options set only
\* _CHUNK_SIZE is kept here.  Any int is accepted.
set_ee_options(chunk_size) ==
    /\ pc = "idle"
    /\ _CHUNK_SIZE' = chunk_size
    /\ result' = [op |-> "set_ee_options", outcome |-> Return("None")]
    /\ UNCHANGED <<bounds, rasterVars, hypVars, eeddfVars, df, start, query_list, pc>>

\* values_at_df(df), lines 173-187: an empty table is returned at once;
\* otherwise the loop is entered.
values_at_df(table) ==
    /\ pc = "idle"
    /\ df' = table
    /\ start' = 0
    /\ query_list' = <<>>
    /\ IF Len(table) = 0
       THEN /\ pc' = "idle"
            /\ result' = [op |-> "values_at_df", outcome |-> Return(table)]
       ELSE /\ pc' = "loop"
            /\ result' = [op |-> "values_at_df", outcome |-> [kind |-> "running"]]
    /\ UNCHANGED <<bounds, rasterVars, hypVars, eeddfVars, _CHUNK_SIZE>>

\* One iteration of the loop, lines 188-192.
LoopStep ==
    /\ pc = "loop"
    /\ Continue
    /\ IF Len(query_list) < MaxQueries
       THEN /\ query_list' = Append(query_list, Slice(df, start, NextEnd))
            /\ start' = NextEnd
            /\ UNCHANGED <<pc, result>>
       ELSE /\ pc' = "idle"
            /\ result' = [op |-> "values_at_df",
                          outcome |-> Raise("MemoryError", "query_list.append")]
            /\ UNCHANGED <<query_list, start>>
    /\ UNCHANGED <<bounds, rasterVars, hypVars, eeddfVars, _CHUNK_SIZE, df>>

\* Flattening of the chunks: pd.concat of one answer per chunk, line 195.
RECURSIVE Concat(_)
Concat(chunks) == IF chunks = <<>> THEN <<>> ELSE Head(chunks) \o Concat(Tail(chunks))

\* The loop ends, lines 194-195: the chunks are queried and the answers
\* concatenated.
LoopExit ==
    /\ pc = "loop"
    /\ ~Continue
    /\ pc' = "idle"
    /\ result' = [op |-> "values_at_df", outcome |-> Return(Concat(query_list))]
    /\ UNCHANGED <<bounds, rasterVars, hypVars, eeddfVars, _CHUNK_SIZE, df,
                   start, query_list>>

----------------------------------------------------------------------------
(* Specification FairSpecChunks: set_ee_options and values_at_df *)

\* Tables of up to MaxTableRows rows
MaxTableRows == 4
ChunkTables == {[r \in 1..n |-> r] : n \in 0..MaxTableRows}

\* Chunk sizes handed to set_ee_options
ChunkSizes == {-1, 0, 1, 2, 3}

InitChunks ==
    /\ bounds = IsoBounds
    /\ result = NoCall
    /\ ModulesLoaded
    /\ file = [exists |-> FALSE]
    /\ tif = [loaded |-> FALSE]
    /\ saved = [given |-> FALSE]
    /\ sample_data = <<>>
    /\ arg_isotope_column_names = <<>>
    /\ arg_sample_size_per_location = 0
    /\ means_isoscapes = <<>>
    /\ variances_isoscapes = <<>>

NextChunks ==
    \/ \E chunk_size \in ChunkSizes : set_ee_options(chunk_size)
    \/ \E table \in ChunkTables : values_at_df(table)
    \/ LoopStep
    \/ LoopExit

\* A call of values_at_df runs on once made: the loop keeps iterating and
\* exits when its condition fails.  Calls themselves need not be made.
FairSpecChunks ==
    InitChunks /\ [][NextChunks]_vars /\ WF_vars(LoopStep) /\ WF_vars(LoopExit)

\* The chunks built partition the rows: in input order they make up the
\* table, and each has between 1 and _CHUNK_SIZE rows.
Partition ==
    /\ Concat(query_list) = df
    /\ \A c \in 1..Len(query_list) :
          Len(query_list[c]) >= 1 /\ Len(query_list[c]) <= _CHUNK_SIZE

\* values_at_df has returned with its chunks partitioning the rows.
Chunked ==
    /\ pc = "idle" /\ result.op = "values_at_df"
    /\ Returned(result.outcome)
    /\ Partition

\* C18: for every chunk size set_ee_options can set, the loop of
\* values_at_df on a non-empty table terminates with chunks that partition
\* the rows, and an empty table is returned unchanged with no chunk built.
C18_ChunkingTerminates ==
    /\ [](pc = "loop" => <>Chunked)
    /\ []((result.op = "values_at_df" /\ df = <<>>) =>
             /\ result.outcome = Return(df)
             /\ query_list = <<>>
             /\ pc = "idle")

====
